---------------------------- MODULE Spec2Model ----------------------------
(***************************************************************************)
(* Lid-driven cavity solver (DrivenCavity.template-to-students.UPDATED.cpp) *)
(* as a state machine: main()'s position, the six field stores, the scalar  *)
(* solution variables and the output files.                                 *)
(*                                                                          *)
(* Numbers.  A C++ double is an integer count of thousandths (one = 1000    *)
(* stands for 1.0) between -MaxFinite and MaxFinite, or one of the three    *)
(* IEEE specials PInf, NInf, NaN.  The arithmetic operators below follow    *)
(* IEEE 754 on the specials (NaN propagates, x/0 = +-Inf, 0/0 = NaN,        *)
(* Inf - Inf = NaN, every ordered comparison with NaN is false, fmax and    *)
(* fmin drop a NaN operand) and round finite results toward zero, except    *)
(* that a nonzero product or quotient never becomes zero; a result beyond   *)
(* MaxFinite overflows to an infinity.                                      *)
(*                                                                          *)
(* User inputs.  The grid is imax x jmax with the smallest size the         *)
(* stencils allow; the cavity is 4 m wide so that dx and dy are             *)
(* representable; nmax, iterout and residualOut are small and toler is 0.5  *)
(* so that the cadence, the converged exit and the iteration cap all occur  *)
(* within a few iterations.  Every other input keeps the value of the       *)
(* source.                                                                  *)
(*                                                                          *)
(* Memory.  new double[] and the locals of main() are not initialised: one  *)
(* value of Garbage, chosen per run, stands for what they hold.             *)
(***************************************************************************)
EXTENDS Integers, Sequences, FiniteSets, TLC

(* ------------------------------ bounds --------------------------------- *)
imax == 5
jmax == 5
MaxFinite == 1000000
nmax == 4
iterout == 2
residualOut == 3

(* -------------------- numerical constants (lines 28-39) ---------------- *)
zero == 0
one == 1000
two == 2000
four == 4000
six == 6000
half == 500
neq == 3

(* ------------------------ IEEE special values -------------------------- *)
PInf == MaxFinite + 1
NInf == -(MaxFinite + 1)
NaN == MaxFinite + 2

IsNaN(a) == a = NaN
IsInf(a) == a = PInf \/ a = NInf
IsFinite(a) == ~IsNaN(a) /\ ~IsInf(a)

Abs(n) == IF n < 0 THEN -n ELSE n
Sign(n) == IF n < 0 THEN -1 ELSE 1

(* rounding of an exact integer result into the representable range *)
Norm(n) == IF n > MaxFinite THEN PInf ELSE IF n < -MaxFinite THEN NInf ELSE n

(* Evaluation.  Each arithmetic operator is a function applied to its      *)
(* arguments, and Bind(e, F) is F(e): both evaluate an operand once, where  *)
(* an operator definition would re-evaluate it at every use.                *)
Bind(e, F(_)) == CHOOSE r \in {F(x) : x \in {e}} : TRUE

NegF[a \in Int] == IF IsNaN(a) THEN NaN ELSE -a
Neg(a) == NegF[a]

AddF[a \in Int, b \in Int] ==
    IF IsNaN(a) \/ IsNaN(b) THEN NaN
    ELSE IF IsInf(a) THEN (IF IsInf(b) /\ a # b THEN NaN ELSE a)
    ELSE IF IsInf(b) THEN b
    ELSE Norm(a + b)
Add(a, b) == AddF[a, b]

Sub(a, b) == AddF[a, NegF[b]]

(* a nonzero exact result is never rounded to zero (no underflow): the      *)
(* smallest magnitude takes its place                                       *)
AwayFromZero(m, nonzero) == IF m = 0 /\ nonzero THEN 1 ELSE m

MulFinite(a, b) ==
    Sign(a) * Sign(b) *
       AwayFromZero((Abs(a) \div one) * Abs(b) + ((Abs(a) % one) * Abs(b)) \div one,
                    a # 0 /\ b # 0)

MulF[a \in Int, b \in Int] ==
    IF IsNaN(a) \/ IsNaN(b) THEN NaN
    ELSE IF IsInf(a) \/ IsInf(b)
         THEN (IF a = 0 \/ b = 0 THEN NaN
               ELSE IF Sign(a) * Sign(b) > 0 THEN PInf ELSE NInf)
    ELSE Norm(MulFinite(a, b))
Mul(a, b) == MulF[a, b]

DivF[a \in Int, b \in Int] ==
    IF IsNaN(a) \/ IsNaN(b) THEN NaN
    ELSE IF IsInf(a) THEN (IF IsInf(b) THEN NaN
                           ELSE IF Sign(a) * Sign(b) > 0 THEN PInf ELSE NInf)
    ELSE IF IsInf(b) THEN 0
    ELSE IF b = 0 THEN (IF a = 0 THEN NaN ELSE IF a > 0 THEN PInf ELSE NInf)
    ELSE Norm(Sign(a) * Sign(b) * AwayFromZero((Abs(a) * one) \div Abs(b), a # 0))
Div(a, b) == DivF[a, b]

(* the largest integer whose square is at most x, by bisection of lo .. hi *)
RECURSIVE SqrtIter(_, _, _)
SqrtIter(x, lo, hi) ==
    IF lo >= hi THEN lo
    ELSE Bind((lo + hi + 1) \div 2, LAMBDA mid :
              IF mid * mid <= x THEN SqrtIter(x, mid, hi)
              ELSE SqrtIter(x, lo, mid - 1))

SqrtF[a \in Int] ==
    IF IsNaN(a) THEN NaN
    ELSE IF a = PInf THEN PInf
    ELSE IF a < 0 THEN NaN
    ELSE SqrtIter(a * one, 0, 32000)
Sqrt(a) == SqrtF[a]

FabsF[a \in Int] == IF IsNaN(a) THEN NaN ELSE Abs(a)
Fabs(a) == FabsF[a]

(* a < b and a > b on doubles: false when either operand is NaN *)
LtF[a \in Int, b \in Int] == ~IsNaN(a) /\ ~IsNaN(b) /\ a < b
Lt(a, b) == LtF[a, b]
Gt(a, b) == LtF[b, a]

FmaxF[a \in Int, b \in Int] ==
    IF IsNaN(a) THEN b ELSE IF IsNaN(b) THEN a ELSE IF a < b THEN b ELSE a
Fmax(a, b) == FmaxF[a, b]
FminF[a \in Int, b \in Int] ==
    IF IsNaN(a) THEN b ELSE IF IsNaN(b) THEN a ELSE IF b < a THEN b ELSE a
Fmin(a, b) == FminF[a, b]

Pow2F[x \in Int] == MulF[x, x]
pow2(x) == Pow2F[x]
ToDouble(n) == n * one

(* ------------------- user inputs (lines 43-67) -------------------------- *)
cfl == 800
Cx == 10
Cy == 10
toler == 500
rkappa == 100
Re == 10000
pinf == 801
uinf == 1000
rho == 1000
xmin == 0
xmax == 4 * one
ymin == 0
ymax == 4 * one

(* --------------- manufactured-solution tables (lines 80-89) ------------- *)
phi0   == <<250, 300, 200>>
phix   == <<500, 150, 166>>
phiy   == <<400, 200, 250>>
phixy  == <<333, 250, 100>>
apx    == <<500, 333, 411>>
apy    == <<200, 250, 166>>
apxy   == <<285, 400, 333>>
fsinx  == <<0, 1000, 0>>
fsiny  == <<1000, 0, 0>>
fsinxy == <<1000, 1000, 0>>

(* ------------------------------ state ----------------------------------- *)
VARIABLES
    pc,                       \* position of main()
    isgs, imms, irstr,        \* mode flags (lines 45-47)
    iterationStep,            \* function pointer (line 1529)
    set_boundary_conditions,  \* function pointer (line 1530)
    rhoinv, rlength, rmu, vel2ref, dx, dy, rpi,   \* derived inputs (71-77)
    u, uold, src,             \* Array3 stores (lines 1496-1499)
    viscx, viscy, dt,         \* Array2 stores (lines 1501-1504)
    n, ninit,                 \* iteration number, first iteration
    res, resinit, rtime, dtmin, conv,   \* solution scalars (1509-1521)
    created,                  \* files that exist on disk
    fp1, fp2, fp3,            \* history lines, field zones, restart record
    stdout,                   \* messages printed
    log,                      \* per iteration: [n, conv, res] as monitored
    ustart                    \* u as it stood when the current iteration began

flagVars    == <<isgs, imms, irstr>>
ptrVars     == <<iterationStep, set_boundary_conditions>>
derivedVars == <<rhoinv, rlength, rmu, vel2ref, dx, dy, rpi>>
fieldVars   == <<u, uold, src, viscx, viscy, dt>>
scalarVars  == <<n, ninit, res, resinit, rtime, dtmin, conv>>
fileVars    == <<created, fp1, fp2, fp3>>
vars == <<pc, flagVars, ptrVars, derivedVars, fieldVars, scalarVars,
          fileVars, stdout, log, ustart>>

(* -------------------------- field stores -------------------------------- *)
IRange == 0 .. imax - 1
JRange == 0 .. jmax - 1
KRange == 0 .. neq - 1
Nodes == IRange \X JRange
IsInterior(i, j) == 1 <= i /\ i <= imax - 2 /\ 1 <= j /\ j <= jmax - 2
InteriorNodes == {nd \in Nodes : IsInterior(nd[1], nd[2])}
BoundaryNodes == Nodes \ InteriorNodes

(* new double[i*j*k]: every element holds whatever the heap held *)
Array3(g) == [i \in IRange |-> [j \in JRange |-> [k \in KRange |-> g]]]
Array2(g) == [i \in IRange |-> [j \in JRange |-> g]]

(* fault injection: the copy is not made and the caller keeps its data *)
copyDataSkipped(self, A) == self

(* Array3::copyData / Array2::copyData: memcpy of A's data into the caller *)
copyData(self, A) == A

(* fault injection: the caller takes A's data and A keeps its own *)
swapDataCopies(self, A) == <<A, A>>

(* swapData: the two stores exchange their data pointers; <<self, A>> after *)
swapData(self, A) == <<A, self>>

(* ------------------- <cmath>: sin, cos, acos(-1) ------------------------ *)
(* truncated Taylor series, exact to the model's resolution on [0, pi/2]   *)
SinF[a \in Int] ==
    IF ~IsFinite(a) THEN NaN
    ELSE Bind(Mul(a, a), LAMBDA a2 :
         Bind(Div(Mul(a2, a), ToDouble(6)), LAMBDA t3 :
         Bind(Div(Mul(a2, t3), ToDouble(20)), LAMBDA t5 :
              Sub(Add(Sub(a, t3), t5), Div(Mul(a2, t5), ToDouble(42))))))
Sin(a) == SinF[a]

CosF[a \in Int] ==
    IF ~IsFinite(a) THEN NaN
    ELSE Bind(Mul(a, a), LAMBDA a2 :
         Bind(Div(a2, ToDouble(2)), LAMBDA t2 :
         Bind(Div(Mul(a2, t2), ToDouble(12)), LAMBDA t4 :
              Sub(Add(Sub(one, t2), t4), Div(Mul(a2, t4), ToDouble(30))))))
Cos(a) == CosF[a]

AcosMinusOne == 3141

(* node coordinates as the code computes them (lines 563, 586, 733, 1281) *)
XofI(i) == Div(Mul(Sub(xmax, xmin), ToDouble(i)), ToDouble(imax - 1))
YofJ(j) == Div(Mul(Sub(ymax, ymin), ToDouble(j)), ToDouble(jmax - 1))

(* ------------------------ umms (lines 680-710) -------------------------- *)
umms(x, y, k) ==
    LET argx   == Div(Mul(Mul(apx[k+1], rpi), x), rlength)
        argy   == Div(Mul(Mul(apy[k+1], rpi), y), rlength)
        argxy  == Div(Div(Mul(Mul(Mul(apxy[k+1], rpi), x), y), rlength), rlength)
        termx  == Mul(phix[k+1], Add(Mul(fsinx[k+1], Sin(argx)),
                                     Mul(Sub(one, fsinx[k+1]), Cos(argx))))
        termy  == Mul(phiy[k+1], Add(Mul(fsiny[k+1], Sin(argy)),
                                     Mul(Sub(one, fsiny[k+1]), Cos(argy))))
        termxy == Mul(phixy[k+1], Add(Mul(fsinxy[k+1], Sin(argxy)),
                                      Mul(Sub(one, fsinxy[k+1]), Cos(argxy))))
    IN  Add(Add(Add(phi0[k+1], termx), termy), termxy)

(* the arguments and wave numbers shared by the three source terms *)
ArgX(k, x)     == Div(Mul(Mul(apx[k+1], rpi), x), rlength)
ArgY(k, y)     == Div(Mul(Mul(apy[k+1], rpi), y), rlength)
ArgXY(k, x, y) == Div(Div(Mul(Mul(Mul(apxy[k+1], rpi), x), y), rlength), rlength)
WaveX(k)       == Div(Mul(apx[k+1], rpi), rlength)
WaveY(k)       == Div(Mul(apy[k+1], rpi), rlength)
WaveXYy(k, y)  == Div(Div(Mul(Mul(apxy[k+1], rpi), y), rlength), rlength)
WaveXYx(k, x)  == Div(Div(Mul(Mul(apxy[k+1], rpi), x), rlength), rlength)

(* ---------------------- srcmms_mass (lines 744-767) --------------------- *)
srcmms_mass(x, y) ==
    LET dudx == Add(Mul(Mul(phix[2], WaveX(1)), Cos(ArgX(1, x))),
                    Mul(Mul(phixy[2], WaveXYy(1, y)), Cos(ArgXY(1, x, y))))
        dvdy == Sub(Neg(Mul(Mul(phiy[3], WaveY(2)), Sin(ArgY(2, y)))),
                    Mul(Mul(phixy[3], WaveXYx(2, x)), Sin(ArgXY(2, x, y))))
    IN  Add(Mul(rho, dudx), Mul(rho, dvdy))

MmsUvel(x, y) ==
    Add(Add(Add(phi0[2], Mul(phix[2], Sin(ArgX(1, x)))),
            Mul(phiy[2], Cos(ArgY(1, y)))),
        Mul(phixy[2], Sin(ArgXY(1, x, y))))
MmsVvel(x, y) ==
    Add(Add(Add(phi0[3], Mul(phix[3], Cos(ArgX(2, x)))),
            Mul(phiy[3], Cos(ArgY(2, y)))),
        Mul(phixy[3], Cos(ArgXY(2, x, y))))

(* ---------------------- srcmms_xmtm (lines 771-818) --------------------- *)
srcmms_xmtm(x, y) ==
    LET uvel == MmsUvel(x, y)
        vvel == MmsVvel(x, y)
        dudx == Add(Mul(Mul(phix[2], WaveX(1)), Cos(ArgX(1, x))),
                    Mul(Mul(phixy[2], WaveXYy(1, y)), Cos(ArgXY(1, x, y))))
        dudy == Add(Neg(Mul(Mul(phiy[2], WaveY(1)), Sin(ArgY(1, y)))),
                    Mul(Mul(phixy[2], WaveXYx(1, x)), Cos(ArgXY(1, x, y))))
        dpdx == Add(Neg(Mul(Mul(phix[1], WaveX(0)), Sin(ArgX(0, x)))),
                    Mul(Mul(phixy[1], WaveXYy(0, y)), Cos(ArgXY(0, x, y))))
        d2udx2 == Sub(Neg(Mul(Mul(phix[2], pow2(WaveX(1))), Sin(ArgX(1, x)))),
                      Mul(Mul(phixy[2], pow2(WaveXYy(1, y))), Sin(ArgXY(1, x, y))))
        d2udy2 == Sub(Neg(Mul(Mul(phiy[2], pow2(WaveY(1))), Cos(ArgY(1, y)))),
                      Mul(Mul(phixy[2], pow2(WaveXYx(1, x))), Sin(ArgXY(1, x, y))))
    IN  Sub(Add(Add(Mul(Mul(rho, uvel), dudx), Mul(Mul(rho, vvel), dudy)), dpdx),
            Mul(rmu, Add(d2udx2, d2udy2)))

(* ---------------------- srcmms_ymtm (lines 822-869) --------------------- *)
srcmms_ymtm(x, y) ==
    LET uvel == MmsUvel(x, y)
        vvel == MmsVvel(x, y)
        dvdx == Sub(Neg(Mul(Mul(phix[3], WaveX(2)), Sin(ArgX(2, x)))),
                    Mul(Mul(phixy[3], WaveXYy(2, y)), Sin(ArgXY(2, x, y))))
        dvdy == Sub(Neg(Mul(Mul(phiy[3], WaveY(2)), Sin(ArgY(2, y)))),
                    Mul(Mul(phixy[3], WaveXYx(2, x)), Sin(ArgXY(2, x, y))))
        dpdy == Add(Mul(Mul(phiy[1], WaveY(0)), Cos(ArgY(0, y))),
                    Mul(Mul(phixy[1], WaveXYx(0, x)), Cos(ArgXY(0, x, y))))
        d2vdx2 == Sub(Neg(Mul(Mul(phix[3], pow2(WaveX(2))), Cos(ArgX(2, x)))),
                      Mul(Mul(phixy[3], pow2(WaveXYy(2, y))), Cos(ArgXY(2, x, y))))
        d2vdy2 == Sub(Neg(Mul(Mul(phiy[3], pow2(WaveY(2))), Cos(ArgY(2, y)))),
                      Mul(Mul(phixy[3], pow2(WaveXYx(2, x))), Cos(ArgXY(2, x, y))))
    IN  Sub(Add(Add(Mul(Mul(rho, uvel), dvdx), Mul(Mul(rho, vvel), dvdy)), dpdy),
            Mul(rmu, Add(d2vdx2, d2vdy2)))

(* ------------------- interior traversal orders -------------------------- *)
NI == imax - 2
NJ == jmax - 2
NInterior == NI * NJ
(* for(j) { for(i) }: node visited at position idx = 1 .. NInterior *)
JOuter(idx) == <<1 + ((idx - 1) % NI), 1 + ((idx - 1) \div NI)>>
(* for(i) { for(j) } *)
IOuter(idx) == <<1 + ((idx - 1) \div NJ), 1 + ((idx - 1) % NJ)>>

(* ------------------------ bndry (lines 482-541) ------------------------- *)
RECURSIVE bndryLeftRight(_, _)
bndryLeftRight(U, j) ==
    IF j >= jmax THEN U
    ELSE Bind([U EXCEPT ![0][j][1] = zero, ![0][j][2] = zero,
                        ![imax-1][j][1] = zero, ![imax-1][j][2] = zero],
         LAMBDA a1 :
         Bind([a1 EXCEPT ![imax-1][j][0] =
                   Sub(Mul(two, a1[imax-2][j][0]), a1[imax-3][j][0])],
         LAMBDA a2 :
         Bind([a2 EXCEPT ![0][j][0] =
                   Sub(Mul(two, a2[1][j][0]), a2[2][j][0])],
         LAMBDA a3 : bndryLeftRight(a3, j + 1))))

RECURSIVE bndryBottomTop(_, _)
bndryBottomTop(U, i) ==
    IF i >= imax - 1 THEN U
    ELSE Bind([U EXCEPT ![i][0][1] = zero, ![i][0][2] = zero],
         LAMBDA a1 :
         Bind([a1 EXCEPT ![i][0][0] =
                   Sub(Mul(two, a1[i][1][0]), a1[i][2][0])],
         LAMBDA a2 :
         Bind([a2 EXCEPT ![i][jmax-1][1] = uinf, ![i][jmax-1][2] = zero],
         LAMBDA a3 :
         Bind([a3 EXCEPT ![i][jmax-1][0] =
                   Sub(Mul(two, a3[i][jmax-2][0]), a3[i][jmax-3][0])],
         LAMBDA a4 : bndryBottomTop(a4, i + 1)))))

(* fault injection: the applier also brings the node next to the corner to rest *)
bndryInward(U) ==
    [bndryBottomTop(bndryLeftRight(U, 0), 1) EXCEPT ![1][1][1] = zero]

bndry(U) == bndryBottomTop(bndryLeftRight(U, 0), 1)

(* ----------------------- bndrymms (lines 545-605) ----------------------- *)
(* the three oracle values stored at a boundary node (x, y)                 *)
MmsNode(x, y) == [k \in KRange |-> umms(x, y, k)]

RECURSIVE bndrymmsSides(_, _)
bndrymmsSides(U, j) ==
    IF j >= jmax - 1 THEN U
    ELSE Bind(YofJ(j), LAMBDA y :
         Bind([U EXCEPT ![0][j] = MmsNode(xmin, y)],
         LAMBDA a1 :
         Bind([a1 EXCEPT ![0][j][0] =
                   Sub(Mul(two, a1[1][j][0]), a1[2][j][0])],
         LAMBDA a2 :
         Bind([a2 EXCEPT ![imax-1][j] = MmsNode(xmax, y)],
         LAMBDA a3 :
         Bind([a3 EXCEPT ![imax-1][j][0] =
                   Sub(Mul(two, a3[imax-2][j][0]), a3[imax-3][j][0])],
         LAMBDA a4 : bndrymmsSides(a4, j + 1))))))

RECURSIVE bndrymmsTopBottom(_, _)
bndrymmsTopBottom(U, i) ==
    IF i >= imax THEN U
    ELSE Bind(XofI(i), LAMBDA x :
         Bind([U EXCEPT ![i][0] = MmsNode(x, ymin)],
         LAMBDA a1 :
         Bind([a1 EXCEPT ![i][0][0] =
                   Sub(Mul(two, a1[i][1][0]), a1[i][2][0])],
         LAMBDA a2 :
         Bind([a2 EXCEPT ![i][jmax-1] = MmsNode(x, ymax)],
         LAMBDA a3 :
         Bind([a3 EXCEPT ![i][jmax-1][0] =
                   Sub(Mul(two, a3[i][jmax-2][0]), a3[i][jmax-3][0])],
         LAMBDA a4 : bndrymmsTopBottom(a4, i + 1))))))

bndrymms(U) == bndrymmsTopBottom(bndrymmsSides(U, 1), 0)

(* the call through the function pointer set_boundary_conditions *)
ApplyBC(U) == IF set_boundary_conditions = "bndry" THEN bndry(U)
              ELSE bndrymms(U)

(* ------------------ compute_source_terms (lines 714-740) ---------------- *)
RECURSIVE sourceLoop(_, _)
sourceLoop(S, idx) ==
    IF idx > NInterior THEN S
    ELSE Bind(IOuter(idx), LAMBDA nd :
         Bind(XofI(nd[1]), LAMBDA x :
         Bind(YofJ(nd[2]), LAMBDA y :
         Bind([S EXCEPT
                 ![nd[1]][nd[2]][0] = Mul(ToDouble(imms), srcmms_mass(x, y)),
                 ![nd[1]][nd[2]][1] = Mul(ToDouble(imms), srcmms_xmtm(x, y)),
                 ![nd[1]][nd[2]][2] = Mul(ToDouble(imms), srcmms_ymtm(x, y))],
         LAMBDA a1 : sourceLoop(a1, idx + 1)))))

compute_source_terms(S) == sourceLoop(S, 1)

(* ------------------- compute_time_step (lines 873-922) ------------------ *)
(* beta2 = fmax(uvel2, rkappa*ref): the preconditioning parameter with the  *)
(* reference ref the caller passes                                          *)
Beta2(uvel2, ref) == Fmax(uvel2, Mul(rkappa, ref))

(* the preconditioning parameter as lines 904, 955, 1072, 1147, 1344 form it *)
Beta2Uinf(uvel2) == Beta2(uvel2, uinf)

(* lines 902-909: the larger of the two eigenvalue bounds at node (i, j) *)
LambdaMax(U, i, j) ==
    Bind(Beta2Uinf(Add(Mul(U[i][j][1], U[i][j][1]), Mul(U[i][j][2], U[i][j][2]))),
    LAMBDA beta2 :
    Bind(Mul(half, Add(Fabs(U[i][j][1]),
                       Sqrt(Add(pow2(U[i][j][1]), Mul(four, beta2))))),
    LAMBDA lambda_x :
    Bind(Mul(half, Add(Fabs(U[i][j][2]),
                       Sqrt(Add(pow2(U[i][j][2]), Mul(four, beta2))))),
    LAMBDA lambda_y :
         IF Gt(lambda_x, lambda_y) THEN lambda_x ELSE lambda_y)))

(* lines 912-914 *)
ConvectiveLimit(U, i, j) == Div(Fmin(dx, dy), LambdaMax(U, i, j))
ViscousLimit == Div(Mul(dx, dy), Mul(Mul(four, rmu), rhoinv))

(* fault injection: the minimum taken by comparison, which keeps a NaN      *)
(* convective limit where fmin drops it                                     *)
LocalTimeStepOrderedMin(U, i, j) ==
    Bind(ConvectiveLimit(U, i, j), LAMBDA dtconv :
         Mul(cfl, IF Lt(ViscousLimit, dtconv) THEN ViscousLimit ELSE dtconv))

(* lines 900-918: the value stored in dtmin and in dt(i,j) *)
LocalTimeStep(U, i, j) ==
    Mul(cfl, Fmin(ConvectiveLimit(U, i, j), ViscousLimit))

(* fault injection: dtmin keeps the smallest step met so far *)
RECURSIVE timeStepLoopRunningMin(_, _, _, _)
timeStepLoopRunningMin(U, Dt, dtm, idx) ==
    IF idx > NInterior THEN <<Dt, dtm>>
    ELSE Bind(IOuter(idx), LAMBDA nd :
         Bind(LocalTimeStep(U, nd[1], nd[2]), LAMBDA d :
         Bind([Dt EXCEPT ![nd[1]][nd[2]] = d], LAMBDA a1 :
              timeStepLoopRunningMin(U, a1, Fmin(dtm, d), idx + 1))))

(* <<dt, dtmin>> after the double loop, entered with <<Dt, dtm>> *)
RECURSIVE timeStepLoop(_, _, _, _)
timeStepLoop(U, Dt, dtm, idx) ==
    IF idx > NInterior THEN <<Dt, dtm>>
    ELSE Bind(IOuter(idx), LAMBDA nd :
         Bind(LocalTimeStep(U, nd[1], nd[2]), LAMBDA d :
         Bind([Dt EXCEPT ![nd[1]][nd[2]] = d], LAMBDA a1 :
              timeStepLoop(U, a1, d, idx + 1))))

compute_time_step(U, Dt, dtm) == timeStepLoop(U, Dt, dtm, 1)

(* ------------ Compute_Artificial_Viscosity (lines 926-1034) ------------- *)
(* <<viscx(i,j), viscy(i,j)>> of the 4th-order damping, lines 953-975 *)
Damping(U, i, j) ==
    Bind(Add(pow2(U[i][j][1]), pow2(U[i][j][2])), LAMBDA uvel2 :
    Bind(Beta2Uinf(uvel2), LAMBDA beta2 :
    Bind(Sqrt(Add(uvel2, Mul(four, beta2))), LAMBDA root :
    LET lambda_x == Mul(half, Add(Fabs(U[i][j][1]), root))
        lambda_y == Mul(half, Add(Fabs(U[i][j][2]), root))
        d4pdx4   == Div(Add(Sub(Add(Sub(U[i+2][j][0], Mul(four, U[i+1][j][0])),
                                    Mul(six, U[i][j][0])),
                                Mul(four, U[i-1][j][0])), U[i-2][j][0]), dx)
        d4pdy4   == Div(Add(Sub(Add(Sub(U[i][j+2][0], Mul(four, U[i][j+1][0])),
                                    Mul(six, U[i][j][0])),
                                Mul(four, U[i][j-1][0])), U[i][j-2][0]), dy)
    IN  << Div(Mul(Mul(Neg(Fabs(lambda_x)), Cx), d4pdx4), beta2),
           Div(Mul(Mul(Neg(Fabs(lambda_y)), Cy), d4pdy4), beta2) >>)))

(* lines 948-980: for(j = 2 .. jmax-3) for(i = 2 .. imax-3) *)
NI2 == imax - 4
NJ2 == jmax - 4
RECURSIVE dampingLoop(_, _, _)
dampingLoop(U, V, idx) ==
    IF idx > NI2 * NJ2 THEN V
    ELSE Bind(<<2 + ((idx - 1) % NI2), 2 + ((idx - 1) \div NI2)>>, LAMBDA nd :
         Bind(Damping(U, nd[1], nd[2]), LAMBDA d :
         Bind(<< [V[1] EXCEPT ![nd[1]][nd[2]] = d[1]],
                 [V[2] EXCEPT ![nd[1]][nd[2]] = d[2]] >>,
         LAMBDA a1 : dampingLoop(U, a1, idx + 1))))

sides == <<1, imax - 2>>
top_bottom == <<1, jmax - 2>>

(* lines 989-1006: one pass of the body of the side loop at (i, j); V is    *)
(* <<viscx, viscy>>, and each assignment reads what the one before it left  *)
SideBody(V, i, j) ==
    Bind(IF i = 1
         THEN Bind([V[1] EXCEPT ![i][j] =
                       Add(V[1][i+1][j],
                           Mul(Div(Sub(V[1][i+2][j], V[1][i+1][j]), dx), dx))],
              LAMBDA v1 :
                   [v1 EXCEPT ![i][j] =
                       Add(v1[i+1][j],
                           Mul(Div(Sub(v1[i+2][j], v1[i+1][j]), dx), dx))])
         ELSE V[1],
    LAMBDA lo :
    Bind(IF i = imax - 1
         THEN Bind([lo EXCEPT ![i][j] =
                       Add(lo[i-1][j],
                           Mul(Div(Sub(lo[i-2][j], lo[i-1][j]), dx), dx))],
              LAMBDA v1 :
                   [v1 EXCEPT ![i][j] =
                       Add(v1[i-1][j],
                           Mul(Div(Sub(v1[i-2][j], v1[i-1][j]), dx), dx))])
         ELSE lo,
    LAMBDA hi : <<hi, V[2]>>))

(* lines 1012-1029: one pass of the body of the top/bottom loop at (i, j) *)
TopBottomBody(V, i, j) ==
    Bind(IF j = 1
         THEN Bind([V[1] EXCEPT ![i][j] =
                       Add(V[1][i][j+1],
                           Mul(Div(Sub(V[1][i][j+2], V[1][i][j+1]), dy), dy))],
              LAMBDA v1 :
                   [v1 EXCEPT ![i][j] =
                       Add(V[2][i][j+1],
                           Mul(Div(Sub(V[2][i][j+2], V[2][i][j+1]), dy), dy))])
         ELSE V[1],
    LAMBDA lo :
    Bind(IF j = jmax - 1
         THEN Bind([lo EXCEPT ![i][j] =
                       Add(lo[i-1][j],
                           Mul(Div(Sub(lo[i][j-2], lo[i][j-1]), dy), dy))],
              LAMBDA v1 :
                   [v1 EXCEPT ![i][j] =
                       Add(V[2][i][j-1],
                           Mul(Div(Sub(V[2][i][j-2], V[2][i][j-1]), dy), dy))])
         ELSE lo,
    LAMBDA hi : <<hi, V[2]>>))

(* lines 986-1008: for(i : sides) for(j = 1 .. jmax-2) *)
RECURSIVE sideLoop(_, _)
sideLoop(V, idx) ==
    IF idx > 2 * NJ THEN V
    ELSE Bind(SideBody(V, sides[1 + ((idx - 1) \div NJ)], 1 + ((idx - 1) % NJ)),
         LAMBDA a1 : sideLoop(a1, idx + 1))

(* lines 1009-1032: for(j : top_bottom) for(i = 1 .. imax-2) *)
RECURSIVE topBottomLoop(_, _)
topBottomLoop(V, idx) ==
    IF idx > 2 * NI THEN V
    ELSE Bind(TopBottomBody(V, 1 + ((idx - 1) % NI),
                               top_bottom[1 + ((idx - 1) \div NI)]),
         LAMBDA a1 : topBottomLoop(a1, idx + 1))

(* <<viscx, viscy>> after the call *)
Compute_Artificial_Viscosity(U, Vx, Vy) ==
    topBottomLoop(sideLoop(dampingLoop(U, <<Vx, Vy>>, 1), 1), 1)

(* ------------- SGS sweeps (lines 1038-1107, 1111-1184) ------------------ *)
(* the loop body, identical in both sweeps: lines 1071-1101 and 1146-1177 *)
(* line 1093: the x-momentum residual, its derivatives taken from U as it    *)
(* was when the visit of node (i, j) began, u(i,j,1) and u(i,j,2) read in A  *)
XMomentumResid(U, A, S, i, j) ==
    LET dpdx   == Div(Sub(U[i+1][j][0], U[i-1][j][0]), Mul(two, dx))
        dudx   == Div(Sub(U[i+1][j][1], U[i-1][j][1]), Mul(two, dx))
        dudy   == Div(Sub(U[i][j+1][1], U[i][j-1][1]), Mul(two, dy))
        d2udx2 == Div(Add(Sub(U[i+1][j][1], Mul(two, U[i][j][1])), U[i-1][j][1]),
                      Mul(dx, dx))
        d2udy2 == Div(Add(Sub(U[i][j+1][1], Mul(two, U[i][j][1])), U[i][j-1][1]),
                      Mul(dy, dy))
    IN  Sub(Sub(Sub(Add(Add(Mul(Mul(rho, A[i][j][1]), dudx),
                            Mul(Mul(rho, A[i][j][2]), dudy)), dpdx),
                    Mul(rmu, d2udx2)), Mul(rmu, d2udy2)), S[i][j][1])

(* line 1098: the y-momentum residual, likewise *)
YMomentumResid(U, A, S, i, j) ==
    LET dpdy   == Div(Sub(U[i][j+1][0], U[i][j-1][0]), Mul(two, dy))
        dvdx   == Div(Sub(U[i+1][j][2], U[i-1][j][2]), Mul(two, dx))
        dvdy   == Div(Sub(U[i][j+1][2], U[i][j-1][2]), Mul(two, dy))
        d2vdx2 == Div(Add(Sub(U[i+1][j][2], Mul(two, U[i][j][2])), U[i-1][j][2]),
                      Mul(dx, dx))
        d2vdy2 == Div(Add(Sub(U[i][j+1][2], Mul(two, U[i][j][2])), U[i][j-1][2]),
                      Mul(dy, dy))
    IN  Sub(Sub(Sub(Add(Add(Mul(Mul(rho, A[i][j][1]), dvdx),
                            Mul(Mul(rho, A[i][j][2]), dvdy)), dpdy),
                    Mul(rmu, d2vdx2)), Mul(rmu, d2vdy2)), S[i][j][2])

SGSNode(U, Vx, Vy, Dt, S, i, j) ==
    LET uvel2  == Add(pow2(U[i][j][1]), pow2(U[i][j][2]))
        beta2  == Beta2Uinf(uvel2)
        dudx   == Div(Sub(U[i+1][j][1], U[i-1][j][1]), Mul(two, dx))
        dvdy   == Div(Sub(U[i][j+1][2], U[i][j-1][2]), Mul(two, dy))
        continuity_it_resid ==
            Sub(Sub(Sub(Add(Mul(rho, dudx), Mul(rho, dvdy)), Vx[i][j]), Vy[i][j]),
                S[i][j][0])
        xmomentum_it_resid(a) == XMomentumResid(U, a, S, i, j)
        ymomentum_it_resid(a) == YMomentumResid(U, a, S, i, j)
    IN  \* the three updates are made in place, one after the other: each
        \* residual reads the node as the updates before it left it
        Bind([U EXCEPT ![i][j][0] =
                  Sub(U[i][j][0], Mul(Mul(beta2, Dt[i][j]), continuity_it_resid))],
        LAMBDA a1 :
        Bind([a1 EXCEPT ![i][j][1] =
                  Sub(a1[i][j][1],
                      Mul(Mul(Dt[i][j], rhoinv), xmomentum_it_resid(a1)))],
        LAMBDA a2 :
             [a2 EXCEPT ![i][j][2] =
                  Sub(a2[i][j][2],
                      Mul(Mul(Dt[i][j], rhoinv), ymomentum_it_resid(a2)))]))

(* fault injection: every node updated from the field as it was before the  *)
(* sweep, none from a neighbour already updated                             *)
forwardLoopJacobi(U, Vx, Vy, Dt, S, idx) ==
    [i \in IRange |-> [j \in JRange |->
        IF IsInterior(i, j) THEN SGSNode(U, Vx, Vy, Dt, S, i, j)[i][j]
        ELSE U[i][j]]]

(* for(j = 1 .. jmax-2) for(i = 1 .. imax-2), in place *)
RECURSIVE forwardLoop(_, _, _, _, _, _)
forwardLoop(U, Vx, Vy, Dt, S, idx) ==
    IF idx > NInterior THEN U
    ELSE Bind(SGSNode(U, Vx, Vy, Dt, S, JOuter(idx)[1], JOuter(idx)[2]),
         LAMBDA a1 : forwardLoop(a1, Vx, Vy, Dt, S, idx + 1))

SGS_forward_sweep(U, Vx, Vy, Dt, S) == forwardLoop(U, Vx, Vy, Dt, S, 1)

(* for(j = jmax-2 .. 1) for(i = imax-2 .. 1), in place *)
RECURSIVE backwardLoop(_, _, _, _, _, _)
backwardLoop(U, Vx, Vy, Dt, S, idx) ==
    IF idx < 1 THEN U
    ELSE Bind(SGSNode(U, Vx, Vy, Dt, S, JOuter(idx)[1], JOuter(idx)[2]),
         LAMBDA a1 : backwardLoop(a1, Vx, Vy, Dt, S, idx - 1))

SGS_backward_sweep(U, Vx, Vy, Dt, S) == backwardLoop(U, Vx, Vy, Dt, S, NInterior)

(* -------------------- point_Jacobi (lines 1188-1257) -------------------- *)
PJNode(U, Uold, Vx, Vy, Dt, S, i, j) ==
    LET dpdx   == Div(Sub(Uold[i+1][j][0], Uold[i-1][j][0]), Mul(two, dx))
        dpdy   == Div(Sub(Uold[i][j+1][0], Uold[i][j-1][0]), Mul(two, dy))
        dudx   == Div(Sub(Uold[i+1][j][1], Uold[i-1][j][1]), Mul(two, dx))
        dudy   == Div(Sub(Uold[i][j+1][1], Uold[i][j-1][1]), Mul(two, dy))
        dvdx   == Div(Sub(Uold[i+1][j][2], Uold[i-1][j][2]), Mul(two, dx))
        dvdy   == Div(Sub(Uold[i][j+1][2], Uold[i][j-1][2]), Mul(two, dy))
        d2udx2 == Div(Add(Sub(Uold[i+1][j][1], Mul(two, Uold[i][j][1])),
                          Uold[i-1][j][1]), pow2(dx))
        d2udy2 == Div(Add(Sub(Uold[i][j+1][1], Mul(two, Uold[i][j][1])),
                          Uold[i][j-1][1]), pow2(dy))
        d2vdx2 == Div(Add(Sub(Uold[i+1][j][2], Mul(two, Uold[i][j][2])),
                          Uold[i-1][j][2]), pow2(dx))
        d2vdy2 == Div(Add(Sub(Uold[i][j+1][2], Mul(two, Uold[i][j][2])),
                          Uold[i][j-1][2]), pow2(dy))
        uvel2  == Add(pow2(U[i][j][1]), pow2(U[i][j][2]))
        beta2  == Beta2(uvel2, vel2ref)
        p_new  == Sub(Uold[i][j][0],
                      Mul(Mul(beta2, Dt[i][j]),
                          Sub(Sub(Sub(Add(Mul(rho, dudx), Mul(rho, dvdy)),
                                      Vx[i][j]), Vy[i][j]), S[i][j][0])))
        u_new  == Sub(Uold[i][j][1],
                      Mul(Mul(Dt[i][j], rhoinv),
                          Sub(Sub(Sub(Add(Add(Mul(Mul(rho, Uold[i][j][1]), dudx),
                                              Mul(Mul(rho, Uold[i][j][2]), dudy)),
                                          dpdx),
                                      Mul(rmu, d2udx2)), Mul(rmu, d2udy2)),
                              S[i][j][1])))
        v_new  == Sub(Uold[i][j][2],
                      Mul(Mul(Dt[i][j], rhoinv),
                          Sub(Sub(Sub(Add(Add(Mul(Mul(rho, Uold[i][j][1]), dvdx),
                                              Mul(Mul(rho, Uold[i][j][2]), dvdy)),
                                          dpdy),
                                      Mul(rmu, d2vdx2)), Mul(rmu, d2vdy2)),
                              S[i][j][2])))
    IN  [U EXCEPT ![i][j][0] = p_new, ![i][j][1] = u_new, ![i][j][2] = v_new]

(* for(i = 1 .. imax-2) for(j = 1 .. jmax-2) *)
RECURSIVE jacobiLoop(_, _, _, _, _, _, _)
jacobiLoop(U, Uold, Vx, Vy, Dt, S, idx) ==
    IF idx > NInterior THEN U
    ELSE Bind(PJNode(U, Uold, Vx, Vy, Dt, S, IOuter(idx)[1], IOuter(idx)[2]),
         LAMBDA a1 : jacobiLoop(a1, Uold, Vx, Vy, Dt, S, idx + 1))

point_Jacobi(U, Uold, Vx, Vy, Dt, S) == jacobiLoop(U, Uold, Vx, Vy, Dt, S, 1)

(* ----------------- pressure_rescaling (lines 1263-1297) ----------------- *)
iref == (imax - 1) \div 2
jref == (jmax - 1) \div 2

(* the pressure the centre node is anchored to, lines 1279-1288 *)
ReferencePressure ==
    IF imms = 1 THEN umms(XofI(iref), YofJ(jref), 0) ELSE pinf

pressure_rescaling(U) ==
    LET deltap == Sub(U[iref][jref][0], ReferencePressure)
    IN  [i \in IRange |-> [j \in JRange |->
            [U[i][j] EXCEPT ![0] = Sub(U[i][j][0], deltap)]]]

(* ------------ check_iterative_convergence (lines 1301-1396) ------------- *)
(* the local residual of equation k at node (i, j), lines 1339-1358 *)
LocalResid(U, Uold, Dt, i, j, k) ==
    IF k = 0
    THEN LET uvel2 == Add(pow2(U[i][j][1]), pow2(U[i][j][2]))
             beta2 == Beta2Uinf(uvel2)
         IN  Div(Sub(U[i][j][0], Uold[i][j][0]), Mul(Neg(beta2), Dt[i][j]))
    ELSE Div(Mul(Neg(rho), Sub(U[i][j][k], Uold[i][j][k])), Dt[i][j])

(* the three sums of squares, accumulated in loop order *)
RECURSIVE residLoop(_, _, _, _, _)
residLoop(U, Uold, Dt, r, idx) ==
    IF idx > NInterior THEN r
    ELSE Bind(IOuter(idx), LAMBDA nd :
         Bind(<< Add(r[1], pow2(Fabs(LocalResid(U, Uold, Dt, nd[1], nd[2], 0)))),
                 Add(r[2], pow2(Fabs(LocalResid(U, Uold, Dt, nd[1], nd[2], 1)))),
                 Add(r[3], pow2(Fabs(LocalResid(U, Uold, Dt, nd[1], nd[2], 2)))) >>,
         LAMBDA a1 : residLoop(U, Uold, Dt, a1, idx + 1)))

(* res[k] after the call, lines 1332-1371 *)
ResidualNorms(U, Uold, Dt) ==
    Bind(residLoop(U, Uold, Dt, <<zero, zero, zero>>, 1), LAMBDA sums :
         [k \in KRange |-> Sqrt(Div(sums[k + 1], ToDouble(imax * jmax)))])

(* fault injection: the normaliser built from all three initial residuals *)
L2NorminitAll(rinit) ==
    Sqrt(Div(Add(pow2(rinit[0]), Add(pow2(rinit[1]), pow2(rinit[2]))),
             ToDouble(imax * jmax)))

(* line 1375 *)
L2Norminit(rinit) == Sqrt(Div(pow2(rinit[0]), ToDouble(imax * jmax)))

(* line 1378 *)
ConvergenceRatio(r, rinit) ==
    Div(Fmax(r[0], Fmax(r[1], r[2])), L2Norminit(rinit))

(* line 1384: is the residual line written to history.dat at iteration m *)
WritesResidual(m, first) == (m % residualOut) = 0 \/ m = first

(* fault injection: the test written as !(conv > toler) *)
ConvergedNotAbove(c) == ~Gt(c, toler)

(* line 1607 *)
Converged(c) == Lt(c, toler)

(* ======================= main (lines 1493-1644) ========================= *)
(* What uninitialised memory may hold: zero pages, stale finite data, or a  *)
(* stale bit pattern that is not a number.                                  *)
Garbage == {0, 2 * one, NaN}
Flags == 0 .. 2

Init ==
    /\ pc = "select_iteration"
    /\ isgs \in Flags /\ imms \in Flags /\ irstr \in Flags
    /\ iterationStep = "unset" /\ set_boundary_conditions = "unset"
    /\ rhoinv = 0 /\ rlength = 0 /\ rmu = 0 /\ vel2ref = 0
    /\ dx = 0 /\ dy = 0 /\ rpi = 0
    /\ \E g \in Garbage :
          /\ u = Array3(g) /\ uold = Array3(g) /\ src = Array3(g)
          /\ ustart = Array3(g)
          /\ viscx = Array2(g) /\ viscy = Array2(g) /\ dt = Array2(g)
          /\ res = [k \in KRange |-> g] /\ resinit = [k \in KRange |-> g]
          /\ rtime = g /\ conv = g
    /\ n = 0 /\ ninit = 0
    /\ dtmin = MaxFinite
    /\ created = {} /\ fp1 = <<>> /\ fp2 = <<>> /\ fp3 = <<>>
    /\ stdout = <<>> /\ log = <<>>

(* lines 1532-1544 *)
SelectIteration ==
    /\ pc = "select_iteration"
    /\ IF isgs = 1
       THEN /\ iterationStep' = "GS_iteration"
            /\ pc' = "select_boundary" /\ stdout' = stdout
       ELSE IF isgs = 0
       THEN /\ iterationStep' = "PJ_iteration"
            /\ pc' = "select_boundary" /\ stdout' = stdout
       ELSE /\ stdout' = Append(stdout, "ERROR: isgs must equal 0 or 1!")
            /\ pc' = "exit" /\ iterationStep' = iterationStep
    /\ UNCHANGED <<flagVars, set_boundary_conditions, derivedVars, fieldVars,
                   scalarVars, fileVars, log>>
    /\ UNCHANGED ustart

(* lines 1546-1558 *)
SelectBoundary ==
    /\ pc = "select_boundary"
    /\ IF imms = 0
       THEN /\ set_boundary_conditions' = "bndry"
            /\ pc' = "set_derived_inputs" /\ stdout' = stdout
       ELSE IF imms = 1
       THEN /\ set_boundary_conditions' = "bndrymms"
            /\ pc' = "set_derived_inputs" /\ stdout' = stdout
       ELSE /\ stdout' = Append(stdout, "ERROR: imms must equal 0 or 1!")
            /\ pc' = "exit"
            /\ set_boundary_conditions' = set_boundary_conditions
    /\ UNCHANGED <<flagVars, iterationStep, derivedVars, fieldVars,
                   scalarVars, fileVars, log>>
    /\ UNCHANGED ustart

(* lines 313-323, called at line 1571 *)
set_derived_inputs ==
    /\ pc = "set_derived_inputs"
    /\ rhoinv' = Div(one, rho)
    /\ rlength' = Sub(xmax, xmin)
    /\ rmu' = Div(Mul(Mul(rho, uinf), Sub(xmax, xmin)), Re)
    /\ vel2ref' = Mul(uinf, uinf)
    /\ dx' = Div(Sub(xmax, xmin), ToDouble(imax - 1))
    /\ dy' = Div(Sub(ymax, ymin), ToDouble(jmax - 1))
    /\ rpi' = AcosMinusOne
    /\ pc' = "output_file_headers"
    /\ UNCHANGED <<flagVars, ptrVars, fieldVars, scalarVars, fileVars,
                   stdout, log>>
    /\ UNCHANGED ustart

(* lines 370-406, called at line 1574 *)
output_file_headers ==
    /\ pc = "output_file_headers"
    /\ created' = created \cup {"history.dat", "cavity.dat"}
    /\ fp1' = <<>> /\ fp2' = <<>>
    /\ IF imms = 1 \/ imms = 0
       THEN pc' = "initial" /\ stdout' = stdout
       ELSE /\ stdout' = Append(stdout, "ERROR! imms must equal 0 or 1!!!")
            /\ pc' = "exit"
    /\ UNCHANGED <<flagVars, ptrVars, derivedVars, fieldVars, scalarVars,
                   fp3, log>>
    /\ UNCHANGED ustart

(* lines 436-449: the fresh field and the zeroed source *)
InitialField ==
    [i \in IRange |-> [j \in JRange |->
        [k \in KRange |-> IF k = 0 THEN pinf
                          ELSE IF k = 1 /\ j = jmax - 1 THEN uinf ELSE zero]]]

(* what the restart branch (lines 453-470) can do with restart.in *)
RestartOutcomes == {"missing", "fault", "unparsed"}

(* lines 410-477, called at line 1577 *)
initial ==
    /\ pc = "initial"
    /\ IF irstr = 0
       THEN /\ ninit' = 1
            /\ rtime' = zero
            /\ resinit' = [k \in KRange |-> one]
            /\ u' = InitialField
            /\ src' = Array3(zero)
            /\ pc' = "bc_initial"
            /\ stdout' = stdout
       ELSE IF irstr = 1
       THEN \E outcome \in RestartOutcomes :
              IF outcome = "missing"
              THEN \* fopen returns NULL (line 454)
                   /\ stdout' = Append(stdout, "Error opening restart file. Stopping.")
                   /\ pc' = "exit"
                   /\ UNCHANGED <<ninit, rtime, resinit, u, src>>
              ELSE IF outcome = "fault"
              THEN \* line 459 hands fscanf the int and the double themselves,
                   \* not their addresses: the store goes through address 0
                   /\ pc' = "crashed"
                   /\ UNCHANGED <<ninit, rtime, resinit, u, src, stdout>>
              ELSE \* no field of restart.in parses: every fscanf stores nothing
                   /\ ninit' = ninit + 1
                   /\ stdout' = Append(stdout, "Restarting at iteration")
                   /\ pc' = "bc_initial"
                   /\ UNCHANGED <<rtime, resinit, u, src>>
       ELSE /\ stdout' = Append(stdout, "ERROR: irstr must equal 0 or 1!")
            /\ pc' = "exit"
            /\ UNCHANGED <<ninit, rtime, resinit, u, src>>
    /\ UNCHANGED <<flagVars, ptrVars, derivedVars, uold, viscx, viscy, dt,
                   n, res, dtmin, conv, fileVars, log>>
    /\ UNCHANGED ustart

(* set_boundary_conditions(u): lines 1580, 338, 347, 365 *)
BCSites == {"bc_initial", "gs_bc1", "gs_bc2", "pj_bc"}
(* fault injection: after the forward sweep's boundary conditions the       *)
(* backward sweep starts at once, on the dissipation of the forward sweep   *)
AfterBCNoRecompute(site) == CASE site = "bc_initial" -> "write_initial"
                              [] site = "gs_bc1"     -> "gs_backward"
                              [] site = "gs_bc2"     -> "pressure_rescaling"
                              [] site = "pj_bc"      -> "pressure_rescaling"
AfterBC(site) == CASE site = "bc_initial" -> "write_initial"
                   [] site = "gs_bc1"     -> "gs_visc2"
                   [] site = "gs_bc2"     -> "pressure_rescaling"
                   [] site = "pj_bc"      -> "pressure_rescaling"

SetBoundaryConditions ==
    /\ pc \in BCSites
    /\ u' = ApplyBC(u)
    /\ pc' = AfterBC(pc)
    /\ UNCHANGED <<flagVars, ptrVars, derivedVars, uold, src, viscx, viscy, dt,
                   scalarVars, fileVars, stdout, log>>
    /\ UNCHANGED ustart

(* write_output(n, u, dt, resinit, rtime): lines 609-676; called at lines   *)
(* 1583 (with ninit), 1616 and 1636 (with n)                                *)
WriteSites == {"write_initial", "write_periodic", "write_final"}
AfterWrite(site) == CASE site = "write_initial"  -> "compute_source_terms"
                      [] site = "write_periodic" -> "for_incr"
                      [] site = "write_final"    -> "close_files"
WriteArg(site) == IF site = "write_initial" THEN ninit ELSE n

write_output ==
    /\ pc \in WriteSites
    /\ IF imms = 1 \/ imms = 0
       THEN /\ fp2' = Append(fp2, WriteArg(pc))
            /\ created' = created \cup {"restart.out"}
            /\ fp3' = <<WriteArg(pc), rtime, resinit>>
            /\ pc' = AfterWrite(pc)
            /\ stdout' = stdout
       ELSE /\ fp2' = Append(fp2, WriteArg(pc))
            /\ stdout' = Append(stdout, "ERROR: imms must equal 0 or 1!")
            /\ pc' = "exit"
            /\ UNCHANGED <<created, fp3>>
    /\ UNCHANGED <<flagVars, ptrVars, derivedVars, fieldVars, scalarVars,
                   fp1, log>>
    /\ UNCHANGED ustart

(* line 1587 *)
ComputeSourceTerms ==
    /\ pc = "compute_source_terms"
    /\ src' = compute_source_terms(src)
    /\ pc' = "for_init"
    /\ UNCHANGED <<flagVars, ptrVars, derivedVars, u, uold, viscx, viscy, dt,
                   scalarVars, fileVars, stdout, log>>
    /\ UNCHANGED ustart

(* line 1590: for (n = ninit; n <= nmax; n++) *)
ForInit ==
    /\ pc = "for_init"
    /\ n' = ninit
    /\ pc' = "for_test"
    /\ UNCHANGED <<flagVars, ptrVars, derivedVars, fieldVars, ninit, res,
                   resinit, rtime, dtmin, conv, fileVars, stdout, log>>
    /\ UNCHANGED ustart

ForTest ==
    /\ pc = "for_test"
    /\ pc' = IF n <= nmax THEN "compute_time_step" ELSE "max_reached"
    /\ UNCHANGED <<flagVars, ptrVars, derivedVars, fieldVars, scalarVars,
                   fileVars, stdout, log>>
    /\ ustart' = IF n <= nmax THEN u ELSE ustart

ForIncr ==
    /\ pc = "for_incr"
    /\ n' = n + 1
    /\ pc' = "for_test"
    /\ UNCHANGED <<flagVars, ptrVars, derivedVars, fieldVars, ninit, res,
                   resinit, rtime, dtmin, conv, fileVars, stdout, log>>
    /\ UNCHANGED ustart

(* line 1593, then the call through iterationStep at line 1596 *)
ComputeTimeStep ==
    /\ pc = "compute_time_step"
    /\ \E r \in {compute_time_step(u, dt, dtmin)} :
          dt' = r[1] /\ dtmin' = r[2]
    /\ pc' = IF iterationStep = "GS_iteration" THEN "gs_copy" ELSE "pj_swap"
    /\ UNCHANGED <<flagVars, ptrVars, derivedVars, u, uold, src, viscx, viscy,
                   n, ninit, res, resinit, rtime, conv, fileVars, stdout, log>>
    /\ UNCHANGED ustart

(* GS_iteration, line 330 *)
GSCopy ==
    /\ pc = "gs_copy"
    /\ uold' = copyData(uold, u)
    /\ pc' = "gs_visc1"
    /\ UNCHANGED <<flagVars, ptrVars, derivedVars, u, src, viscx, viscy, dt,
                   scalarVars, fileVars, stdout, log>>
    /\ UNCHANGED ustart

(* Compute_Artificial_Viscosity: lines 333 and 341 (on u), 359 (on uold) *)
ViscSites == {"gs_visc1", "gs_visc2", "pj_visc"}
AfterVisc(site) == CASE site = "gs_visc1" -> "gs_forward"
                     [] site = "gs_visc2" -> "gs_backward"
                     [] site = "pj_visc"  -> "pj_jacobi"

ComputeArtificialViscosity ==
    /\ pc \in ViscSites
    /\ \E r \in {Compute_Artificial_Viscosity(
                       IF pc = "pj_visc" THEN uold ELSE u, viscx, viscy)} :
          viscx' = r[1] /\ viscy' = r[2]
    /\ pc' = AfterVisc(pc)
    /\ UNCHANGED <<flagVars, ptrVars, derivedVars, u, uold, src, dt,
                   scalarVars, fileVars, stdout, log>>
    /\ UNCHANGED ustart

(* GS_iteration, line 335 *)
SGSForwardSweep ==
    /\ pc = "gs_forward"
    /\ u' = SGS_forward_sweep(u, viscx, viscy, dt, src)
    /\ pc' = "gs_bc1"
    /\ UNCHANGED <<flagVars, ptrVars, derivedVars, uold, src, viscx, viscy, dt,
                   scalarVars, fileVars, stdout, log>>
    /\ UNCHANGED ustart

(* GS_iteration, line 344 *)
SGSBackwardSweep ==
    /\ pc = "gs_backward"
    /\ u' = SGS_backward_sweep(u, viscx, viscy, dt, src)
    /\ pc' = "gs_bc2"
    /\ UNCHANGED <<flagVars, ptrVars, derivedVars, uold, src, viscx, viscy, dt,
                   scalarVars, fileVars, stdout, log>>
    /\ UNCHANGED ustart

(* PJ_iteration, line 356: uold.swapData(u) *)
PJSwap ==
    /\ pc = "pj_swap"
    /\ LET r == swapData(uold, u)
       IN  uold' = r[1] /\ u' = r[2]
    /\ pc' = "pj_visc"
    /\ UNCHANGED <<flagVars, ptrVars, derivedVars, src, viscx, viscy, dt,
                   scalarVars, fileVars, stdout, log>>
    /\ UNCHANGED ustart

(* PJ_iteration, line 362 *)
PointJacobi ==
    /\ pc = "pj_jacobi"
    /\ u' = point_Jacobi(u, uold, viscx, viscy, dt, src)
    /\ pc' = "pj_bc"
    /\ UNCHANGED <<flagVars, ptrVars, derivedVars, uold, src, viscx, viscy, dt,
                   scalarVars, fileVars, stdout, log>>
    /\ UNCHANGED ustart

(* line 1599 *)
PressureRescaling ==
    /\ pc = "pressure_rescaling"
    /\ u' = pressure_rescaling(u)
    /\ pc' = "update_time"
    /\ UNCHANGED <<flagVars, ptrVars, derivedVars, uold, src, viscx, viscy, dt,
                   scalarVars, fileVars, stdout, log>>
    /\ UNCHANGED ustart

(* line 1602 *)
UpdateTime ==
    /\ pc = "update_time"
    /\ rtime' = Add(rtime, dtmin)
    /\ pc' = "check_iterative_convergence"
    /\ UNCHANGED <<flagVars, ptrVars, derivedVars, fieldVars, n, ninit, res,
                   resinit, dtmin, conv, fileVars, stdout, log>>
    /\ UNCHANGED ustart

(* line 1605 *)
CheckIterativeConvergence ==
    /\ pc = "check_iterative_convergence"
    /\ \E r \in {ResidualNorms(u, uold, dt)} :
       \E c \in {ConvergenceRatio(r, resinit)} :
          /\ res' = r
          /\ conv' = c
          /\ log' = Append(log, [n |-> n, conv |-> c, res |-> r])
    /\ fp1' = IF WritesResidual(n, ninit) THEN Append(fp1, n) ELSE fp1
    /\ pc' = "test_converged"
    /\ UNCHANGED <<flagVars, ptrVars, derivedVars, fieldVars, n, ninit,
                   resinit, rtime, dtmin, created, fp2, fp3, stdout>>
    /\ UNCHANGED ustart

(* fault injection: the converged exit is never taken *)
TestConvergedIgnored ==
    /\ pc = "test_converged"
    /\ fp1' = fp1 /\ pc' = "test_iterout"
    /\ UNCHANGED <<flagVars, ptrVars, derivedVars, fieldVars, scalarVars,
                   created, fp2, fp3, stdout, log>>
    /\ UNCHANGED ustart

(* lines 1607-1611 *)
TestConverged ==
    /\ pc = "test_converged"
    /\ IF Converged(conv)
       THEN fp1' = Append(fp1, n) /\ pc' = "converged"
       ELSE fp1' = fp1 /\ pc' = "test_iterout"
    /\ UNCHANGED <<flagVars, ptrVars, derivedVars, fieldVars, scalarVars,
                   created, fp2, fp3, stdout, log>>
    /\ UNCHANGED ustart

(* fault injection: the solution is written after every iteration *)
TestIteroutAlways ==
    /\ pc = "test_iterout"
    /\ pc' = "write_periodic"
    /\ UNCHANGED <<flagVars, ptrVars, derivedVars, fieldVars, scalarVars,
                   fileVars, stdout, log>>
    /\ UNCHANGED ustart

(* line 1614 *)
TestIterout ==
    /\ pc = "test_iterout"
    /\ pc' = IF (n % iterout) = 0 THEN "write_periodic" ELSE "for_incr"
    /\ UNCHANGED <<flagVars, ptrVars, derivedVars, fieldVars, scalarVars,
                   fileVars, stdout, log>>
    /\ UNCHANGED ustart

(* lines 1621-1623 *)
MaxReached ==
    /\ pc = "max_reached"
    /\ stdout' = Append(stdout, "maximum number of timesteps was exceeded")
    /\ pc' = "notconverged"
    /\ UNCHANGED <<flagVars, ptrVars, derivedVars, fieldVars, scalarVars,
                   fileVars, log>>
    /\ UNCHANGED ustart

(* lines 1625-1628 *)
ReportConverged ==
    /\ pc = "converged"
    /\ stdout' = Append(stdout, "convergence criteria was met")
    /\ pc' = "notconverged"
    /\ UNCHANGED <<flagVars, ptrVars, derivedVars, fieldVars, scalarVars,
                   fileVars, log>>
    /\ UNCHANGED ustart

(* line 1633: Discretization_Error_Norms(u), lines 1400-1474; it prints and *)
(* changes nothing that outlives the call                                   *)
DiscretizationErrorNorms ==
    /\ pc = "notconverged"
    /\ stdout' = Append(stdout, "DE Norms")
    /\ pc' = "write_final"
    /\ UNCHANGED <<flagVars, ptrVars, derivedVars, fieldVars, scalarVars,
                   fileVars, log>>
    /\ UNCHANGED ustart

(* lines 1639-1643 *)
CloseFiles ==
    /\ pc = "close_files"
    /\ pc' = "done"
    /\ UNCHANGED <<flagVars, ptrVars, derivedVars, fieldVars, scalarVars,
                   fileVars, stdout, log>>
    /\ UNCHANGED ustart

Next ==
    \/ SelectIteration
    \/ SelectBoundary
    \/ set_derived_inputs
    \/ output_file_headers
    \/ initial
    \/ SetBoundaryConditions
    \/ write_output
    \/ ComputeSourceTerms
    \/ ForInit
    \/ ForTest
    \/ ForIncr
    \/ ComputeTimeStep
    \/ GSCopy
    \/ ComputeArtificialViscosity
    \/ SGSForwardSweep
    \/ SGSBackwardSweep
    \/ PJSwap
    \/ PointJacobi
    \/ PressureRescaling
    \/ UpdateTime
    \/ CheckIterativeConvergence
    \/ TestConverged
    \/ TestIterout
    \/ MaxReached
    \/ ReportConverged
    \/ DiscretizationErrorNorms
    \/ CloseFiles

Spec == Init /\ [][Next]_vars

(* main() is one sequential thread: a statement that can run does run *)
FairSpec == Spec /\ WF_vars(Next)

Terminal == {"done", "exit", "crashed"}

(* ======================= properties of the run ========================== *)
Printed(m) == \E k \in 1 .. Len(stdout) : stdout[k] = m
LastConv == log[Len(log)].conv
Front(q) == SubSeq(q, 1, Len(q) - 1)
InteriorOf(U) == [nd \in InteriorNodes |-> U[nd[1]][nd[2]]]
BoundaryOf(U) == [nd \in BoundaryNodes |-> U[nd[1]][nd[2]]]

(* C1: immediately after pressure_rescaling, in every iteration, the        *)
(* pressure of the centre node equals the reference pressure (pinf in       *)
(* cavity mode, the manufactured pressure at the centre in MMS mode), under *)
(* SGS and under point Jacobi.                                              *)
C1_AnchorEqualsReference ==
    pc = "update_time" => u[iref][jref][0] = ReferencePressure

SecondCallKeepsBoundary(once, twice) == BoundaryOf(twice) = BoundaryOf(once)

(* C2: bndry and bndrymms are idempotent: applied twice in succession to    *)
(* any field, the second call leaves every boundary node, corners included, *)
(* as the first call left it.                                               *)
C2_AppliersIdempotent ==
    pc \in BCSites =>
        /\ Bind(bndry(u), LAMBDA once :
                SecondCallKeepsBoundary(once, bndry(once)))
        /\ Bind(bndrymms(u), LAMBDA once :
                SecondCallKeepsBoundary(once, bndrymms(once)))

(* C3: one swapData exchanges the full contents of the two stores, and a    *)
(* second swapData restores both to their original contents.                *)
C3_SwapSelfInverse ==
    [][PJSwap => /\ uold' = u /\ u' = uold
                 /\ swapData(uold', u') = <<uold, u>>]_vars

(* C3 witness: a swap has just exchanged two stores of different contents,  *)
(* both of them fields of earlier iterations                                *)
C3_Swapped == pc = "pj_visc" /\ uold # u /\ Len(log) >= 2

(* compute_time_step has just returned *)
AfterTimeStep == pc \in {"gs_copy", "pj_swap"}

LoopBounded == Len(log) <= nmax - ninit + 1
NoIterationAfterConverged ==
    \A k \in 1 .. Len(log) - 1 : ~Converged(log[k].conv)
ExitsReport ==
    /\ pc \in {"exit", "crashed"} => log = <<>>
    /\ pc = "done" =>
          /\ Printed("DE Norms")
          /\ Printed("maximum number of timesteps was exceeded")
                 # Printed("convergence criteria was met")

(* C5: the main loop terminates; it runs at most nmax - ninit + 1           *)
(* iterations; the first iteration whose ratio is below toler is the last   *)
(* one, and the converged test sends it to the converged exit; a run that   *)
(* entered the loop ends at the end of main() with the terminal report,     *)
(* through exactly one of the two exits.                                    *)
C5_LoopTerminates ==
    /\ [](LoopBounded /\ NoIterationAfterConverged /\ ExitsReport)
    /\ [][(pc = "test_converged" /\ Converged(conv)) => pc' = "converged"]_vars
    /\ <>(pc \in Terminal)

(* C5 witness: a run that left the loop through the converged exit, after   *)
(* more than one iteration and before the iteration cap                     *)
C5_ConvergedEarly ==
    /\ pc = "done" /\ Len(log) >= 2 /\ Len(log) < nmax
    /\ Converged(LastConv)

InvalidFlag == isgs \notin {0, 1} \/ imms \notin {0, 1} \/ irstr \notin {0, 1}
NothingMutated ==
    /\ created = {} /\ fp1 = <<>> /\ fp2 = <<>> /\ fp3 = <<>>
    /\ rhoinv = 0 /\ rlength = 0 /\ rmu = 0 /\ vel2ref = 0
    /\ dx = 0 /\ dy = 0 /\ rpi = 0
    /\ \E g \in Garbage :
          /\ u = Array3(g) /\ uold = Array3(g) /\ src = Array3(g)
          /\ viscx = Array2(g) /\ viscy = Array2(g) /\ dt = Array2(g)

(* C7: with an invalid mode flag the run stops with a single error report   *)
(* before any state is mutated: no derived input, no field and no output    *)
(* file has been written or created.                                        *)
C7_NoMutationBeforeFlagError ==
    (pc = "exit" /\ InvalidFlag) => (Len(stdout) = 1 /\ NothingMutated)

(* the iteration numbers of q at which a cadence write is due *)
RECURSIVE Cadence(_)
Cadence(q) ==
    IF q = <<>> THEN <<>>
    ELSE IF (q[Len(q)].n % iterout) = 0 /\ ~Converged(q[Len(q)].conv)
         THEN Append(Cadence(Front(q)), q[Len(q)].n)
         ELSE Cadence(Front(q))
BeforeLoop == pc \in {"select_iteration", "select_boundary",
                      "set_derived_inputs", "output_file_headers", "initial",
                      "bc_initial", "write_initial", "exit", "crashed"}
(* the iterations whose cadence decision has been carried out *)
Decided == IF pc \in {"test_converged", "test_iterout", "write_periodic"}
           THEN Front(log) ELSE log

(* C8: inside the loop write_output runs exactly at the iterations n with   *)
(* n mod iterout = 0 that did not converge, and exactly once after the loop *)
(* on either exit; a converged iteration gets no cadence write.  fp2 holds  *)
(* one zone per call: the initial one, the cadence ones, the terminal one.  *)
C8_WriteCadence ==
    ~BeforeLoop =>
        fp2 = <<ninit>> \o Cadence(Decided)
                  \o (IF pc \in {"close_files", "done"} THEN <<n>> ELSE <<>>)

(* C8 witness: a run that converged in an iteration at which a cadence      *)
(* write was due, and has made its terminal write                           *)
C8_ConvergedOnCadence ==
    /\ pc = "done" /\ log # <<>> /\ Converged(LastConv)
    /\ (log[Len(log)].n % iterout) = 0

(* C10: in a point-Jacobi pass every value that feeds the update of an      *)
(* interior node is read from uold: whatever the write side u holds when    *)
(* the pass starts, the pass produces the same interior.                    *)
C10_ReadsOnlyUold ==
    pc = "pj_jacobi" =>
        \A g \in Garbage :
            InteriorOf(point_Jacobi(Array3(g), uold, viscx, viscy, dt, src))
                = InteriorOf(point_Jacobi(u, uold, viscx, viscy, dt, src))

(* Compute_Artificial_Viscosity has just returned *)
AfterViscosity == pc \in {"gs_forward", "gs_backward", "pj_jacobi"}

(* the interior nodes next to a boundary *)
RingNodes ==
    {nd \in InteriorNodes : nd[1] \in {1, imax - 2} \/ nd[2] \in {1, jmax - 2}}

(* 2*V(nearest interior node) - V(next interior node) along the inward      *)
(* normal of each edge the node (i, j) lies next to                         *)
Extrapolations(V, i, j) ==
    {Sub(Mul(two, V[i+1][j]), V[i+2][j]) : e \in IF i = 1 THEN {0} ELSE {}}
    \cup {Sub(Mul(two, V[i-1][j]), V[i-2][j]) :
              e \in IF i = imax - 2 THEN {0} ELSE {}}
    \cup {Sub(Mul(two, V[i][j+1]), V[i][j+2]) : e \in IF j = 1 THEN {0} ELSE {}}
    \cup {Sub(Mul(two, V[i][j-1]), V[i][j-2]) :
              e \in IF j = jmax - 2 THEN {0} ELSE {}}

(* C11: after each call of Compute_Artificial_Viscosity, at every interior  *)
(* node next to a boundary, viscx and viscy each hold the linear            *)
(* extrapolation 2*V(nearest) - V(next) of that same buffer along the       *)
(* normal of an edge the node lies next to.                                 *)
C11_RingHoldsExtrapolation ==
    AfterViscosity =>
        \A nd \in RingNodes :
            /\ viscx[nd[1]][nd[2]] \in Extrapolations(viscx, nd[1], nd[2])
            /\ viscy[nd[1]][nd[2]] \in Extrapolations(viscy, nd[1], nd[2])

(* the two extrapolation loops, applied to <<viscx, viscy>> as the damping  *)
(* loop left them                                                           *)
Extrapolate(V) == topBottomLoop(sideLoop(V, 1), 1)

(* C12: Compute_Artificial_Viscosity keeps the two damping buffers          *)
(* independent: what it stores into viscx does not depend on the contents   *)
(* of viscy, and what it stores into viscy does not depend on the contents  *)
(* of viscx.  Checked at each call, on the buffers as the damping loop left *)
(* them: replacing the other buffer by any contents leaves the result of    *)
(* the extrapolations unchanged.                                            *)
C12_BuffersIndependent ==
    pc \in ViscSites =>
        Bind(dampingLoop(IF pc = "pj_visc" THEN uold ELSE u, <<viscx, viscy>>, 1),
        LAMBDA d :
        Bind(Extrapolate(d), LAMBDA r :
             \A g \in Garbage :
                 /\ Extrapolate(<<d[1], Array2(g)>>)[1] = r[1]
                 /\ Extrapolate(<<Array2(g), d[2]>>)[2] = r[2]))

(* the cavity-wall policy has just been applied to u *)
AfterBndry ==
    /\ pc \in {"write_initial", "gs_visc2", "pressure_rescaling"}
    /\ set_boundary_conditions = "bndry"

(* C13: after bndry the four corner nodes hold the values assigned by the   *)
(* top/bottom pass; the two top corners hold the lid values u = uinf,       *)
(* v = 0.                                                                   *)
C13_TopCornersHoldLid ==
    AfterBndry => \A ic \in {0, imax - 1} :
                      /\ u[ic][jmax-1][1] = uinf
                      /\ u[ic][jmax-1][2] = zero

(* C14: one SGS iteration performs its phases in this order and no other:   *)
(* copy of u into uold, dissipation, forward sweep, boundary conditions on  *)
(* u, dissipation from the updated u, backward sweep, boundary conditions   *)
(* on u; each phase acts on the field exactly as the phase before it left   *)
(* it, so each sweep is preceded by a dissipation call and a boundary call  *)
(* made after the sweep before it.                                          *)
C14_SGSPhaseOrder ==
    [][/\ (pc = "compute_time_step" /\ iterationStep = "GS_iteration")
              => (pc' = "gs_copy" /\ u' = u)
       /\ pc = "gs_copy"
              => (pc' = "gs_visc1" /\ uold' = u /\ u' = u)
       /\ pc = "gs_visc1"
              => /\ pc' = "gs_forward" /\ u' = u
                 /\ <<viscx', viscy'>> = Compute_Artificial_Viscosity(u, viscx, viscy)
       /\ pc = "gs_forward"
              => /\ pc' = "gs_bc1"
                 /\ u' = SGS_forward_sweep(u, viscx, viscy, dt, src)
       /\ pc = "gs_bc1"
              => (pc' = "gs_visc2" /\ u' = ApplyBC(u))
       /\ pc = "gs_visc2"
              => /\ pc' = "gs_backward" /\ u' = u
                 /\ <<viscx', viscy'>> = Compute_Artificial_Viscosity(u, viscx, viscy)
       /\ pc = "gs_backward"
              => /\ pc' = "gs_bc2"
                 /\ u' = SGS_backward_sweep(u, viscx, viscy, dt, src)
       /\ pc = "gs_bc2"
              => (pc' = "pressure_rescaling" /\ u' = ApplyBC(u))]_vars

(* C14 witness: an SGS iteration after the first has run all its phases *)
C14_SGSIterationDone ==
    /\ pc = "pressure_rescaling" /\ iterationStep = "GS_iteration"
    /\ Len(log) >= 1 /\ u # uold

(* the field the update of node (i, j) reads in a sweep that turns U into R *)
(* when the neighbours (i - di, j) and (i, j - dj) have been updated before *)
(* it and every other node of its stencil, and the node itself, has not     *)
ReadBy(U, R, i, j, di, dj) ==
    [U EXCEPT ![i - di][j] = R[i - di][j], ![i][j - dj] = R[i][j - dj]]

(* every interior node of R is one update of its value in U, made on the    *)
(* field ReadBy describes; the boundary nodes are untouched                 *)
SweepCouples(U, R, di, dj) ==
    /\ \A nd \in InteriorNodes :
           R[nd[1]][nd[2]] =
               SGSNode(ReadBy(U, R, nd[1], nd[2], di, dj),
                       viscx, viscy, dt, src, nd[1], nd[2])[nd[1]][nd[2]]
    /\ BoundaryOf(R) = BoundaryOf(U)

(* C15: in the SGS forward sweep the update of interior node (i, j) reads   *)
(* (i-1, j) and (i, j-1) as already written in this sweep and (i+1, j),     *)
(* (i, j+1) as they were before the sweep; the backward sweep is the mirror *)
(* image; each interior node is updated exactly once per sweep.             *)
C15_SweepsReadUpdatedNeighbours ==
    /\ pc = "gs_forward" =>
           Bind(SGS_forward_sweep(u, viscx, viscy, dt, src),
                LAMBDA R : SweepCouples(u, R, 1, 1))
    /\ pc = "gs_backward" =>
           Bind(SGS_backward_sweep(u, viscx, viscy, dt, src),
                LAMBDA R : SweepCouples(u, R, -1, -1))

(* C15 witness: both sweeps of an iteration after the first have run and    *)
(* have changed the interior                                                *)
C15_BothSweepsRan ==
    /\ pc = "gs_bc2" /\ Len(log) >= 1
    /\ InteriorOf(u) # InteriorOf(uold)

(* C16: the local time step is recomputed in every pass from the read-side  *)
(* velocity of that pass: the dt(i,j) the SGS backward sweep uses is the    *)
(* time step of the field as it stands after the forward sweep.             *)
C16_BackwardSweepStepIsCurrent ==
    pc = "gs_backward" =>
        \A nd \in InteriorNodes :
            dt[nd[1]][nd[2]] = LocalTimeStep(u, nd[1], nd[2])

(* C17: on a fresh run, from the end of iteration 1 onward resinit[k]       *)
(* equals the residual norm res[k] computed at iteration 1, k = 0, 1, 2.    *)
C17_ResinitIsFirstResidual ==
    (irstr = 0 /\ log # <<>>) => resinit = log[1].res

(* C18: when the convergence monitor runs in iteration n, under SGS and     *)
(* under point Jacobi alike, uold equals at every node and component the    *)
(* field u as it stood at the start of iteration n.                         *)
C18_UoldIsIterationStart ==
    pc = "check_iterative_convergence" => uold = ustart

(* C18 witness: the monitor is about to run in an iteration after the       *)
(* first, on a field the iteration has changed                              *)
C18_MonitorAfterChange ==
    /\ pc = "check_iterative_convergence" /\ Len(log) >= 1
    /\ u # ustart

(* a == b on doubles: false when either operand is NaN *)
Eq(a, b) == ~IsNaN(a) /\ ~IsNaN(b) /\ a = b

(* the non-corner wall nodes at rest, the non-corner lid nodes at uinf *)
WallVelocities ==
    /\ \A j \in 1 .. jmax - 2 : \A ic \in {0, imax - 1} :
           Eq(u[ic][j][1], zero) /\ Eq(u[ic][j][2], zero)
    /\ \A i \in 1 .. imax - 2 :
           /\ Eq(u[i][0][1], zero) /\ Eq(u[i][0][2], zero)
           /\ Eq(u[i][jmax-1][1], uinf) /\ Eq(u[i][jmax-1][2], zero)

(* p_wall = 2*p_adjacent - p_next_adjacent along the wall normal *)
WallPressures ==
    /\ \A j \in 1 .. jmax - 2 :
           /\ Eq(u[0][j][0], Sub(Mul(two, u[1][j][0]), u[2][j][0]))
           /\ Eq(u[imax-1][j][0],
                 Sub(Mul(two, u[imax-2][j][0]), u[imax-3][j][0]))
    /\ \A i \in 1 .. imax - 2 :
           /\ Eq(u[i][0][0], Sub(Mul(two, u[i][1][0]), u[i][2][0]))
           /\ Eq(u[i][jmax-1][0],
                 Sub(Mul(two, u[i][jmax-2][0]), u[i][jmax-3][0]))

(* C19: in cavity mode, at the end of every iteration (after the pressure   *)
(* anchor), every non-corner node of the left, right and bottom walls has   *)
(* u = v = 0, every non-corner node of the lid has u = uinf and v = 0, and  *)
(* the pressure of every non-corner wall node equals                        *)
(* 2*p_adjacent - p_next_adjacent along the wall normal on the final field. *)
C19_WallsHoldPolicy ==
    (pc = "update_time" /\ imms = 0) => (WallVelocities /\ WallPressures)

(* lid velocities the inputs may give uinf *)
LidVelocities == {half, one, two}

(* C20: every component that forms the preconditioning parameter computes   *)
(* beta2 = max(u^2 + v^2, kappa * Uref^2) with Uref the lid velocity: for   *)
(* every lid velocity and every node state the form of the time-step        *)
(* estimator, the dissipation operator, the SGS sweeps and the convergence  *)
(* monitor (reference uinf) and the form of point Jacobi (reference         *)
(* vel2ref = uinf*uinf) yield the same value, the one the formula gives.    *)
C20_SameBeta2Everywhere ==
    pc = "compute_time_step" =>
        \A lid \in LidVelocities : \A nd \in InteriorNodes :
            Bind(Add(pow2(u[nd[1]][nd[2]][1]), pow2(u[nd[1]][nd[2]][2])),
            LAMBDA q2 :
                /\ Beta2(q2, lid) = Beta2(q2, Mul(lid, lid))
                /\ Beta2(q2, lid) = Fmax(q2, Mul(rkappa, Mul(lid, lid))))

(* ---- C21: the convergence ratio depends on resinit only by resinit[0] --- *)
OtherResinit == Garbage \cup {one, PInf}

InLoopBody ==
    pc \in {"gs_copy", "gs_visc1", "gs_forward", "gs_bc1", "gs_visc2",
            "gs_backward", "gs_bc2", "pj_swap", "pj_visc", "pj_jacobi",
            "pj_bc", "pressure_rescaling", "update_time"}

C23_CounterAndTimeIncrease ==
    [][ /\ ForInit => n' = ninit
        /\ ForIncr => n' = n + 1
        /\ (pc \notin {"for_init", "for_incr"}) => n' = n
        /\ UpdateTime => Gt(rtime', rtime) ]_vars

(* ---------------- C24: S is written only before the loop ---------------- *)
InLoop == InLoopBody \/ pc \in {"for_test", "compute_time_step",
                                "check_iterative_convergence",
                                "test_converged", "test_iterout",
                                "write_periodic", "for_incr"}

(* C24: no step taken inside the main loop changes any element of S, and    *)
(* with imms = 0 every component of S at every node, boundary nodes         *)
(* included, is zero at every point of the loop.                            *)
C24_SourceFrozenAndZero ==
    /\ [][InLoop => src' = src]_vars
    /\ [](InLoop /\ imms = 0 => src = Array3(zero))

(* ----------- C25: the boundary appliers touch the boundary only --------- *)
(* C25: bndry and bndrymms, applied to the field of any boundary step,      *)
(* return a field whose interior nodes are those of the argument, and the   *)
(* boundary step changes nothing but u: U_old, S, Vx, Vy and Dt are         *)
(* as before.                                                               *)
C25_AppliersKeepInteriorAndFields ==
    /\ [](pc \in BCSites => /\ InteriorOf(bndry(u)) = InteriorOf(u)
                            /\ InteriorOf(bndrymms(u)) = InteriorOf(u))
    /\ [][SetBoundaryConditions =>
            /\ InteriorOf(u') = InteriorOf(u)
            /\ UNCHANGED <<uold, src, viscx, viscy, dt>>]_vars

(* a boundary step inside the loop that does change a boundary node *)
C25_BoundaryRewritten ==
    /\ pc \in {"gs_bc1", "gs_bc2", "pj_bc"}
    /\ BoundaryOf(ApplyBC(u)) # BoundaryOf(u)
    /\ \E nd \in InteriorNodes : u[nd[1]][nd[2]] # ustart[nd[1]][nd[2]]

(* ------------ C26: pressure_rescaling is a uniform shift of p ----------- *)
SameVelocities(W, U) ==
    \A nd \in Nodes : /\ W[nd[1]][nd[2]][1] = U[nd[1]][nd[2]][1]
                      /\ W[nd[1]][nd[2]][2] = U[nd[1]][nd[2]][2]

SameShift(W, U) ==
    \A nd \in Nodes :
        W[nd[1]][nd[2]][0] =
            Sub(U[nd[1]][nd[2]][0], Sub(U[iref][jref][0], ReferencePressure))

SameDifferences(W, U) ==
    \A a \in Nodes : \A b \in Nodes :
        Sub(W[a[1]][a[2]][0], W[b[1]][b[2]][0]) =
            Sub(U[a[1]][a[2]][0], U[b[1]][b[2]][0])

(* C26: pressure_rescaling takes one and the same value off the pressure of *)
(* every node, leaves u and v of every node as they were, and the pressure  *)
(* difference of any two nodes is after the call what it was before it.     *)
C26_UniformPressureShift ==
    pc = "pressure_rescaling" =>
        Bind(pressure_rescaling(u), LAMBDA w :
             SameVelocities(w, u) /\ SameShift(w, u) /\ SameDifferences(w, u))

(* -------- C27: no operation reads a never-written array element --------- *)
(* the first dissipation call of a fresh run is about to start: viscx and   *)
(* viscy, and under point Jacobi the write side u, have never been assigned *)
FirstDissipation == irstr = 0 /\ log = <<>> /\ pc \in {"gs_visc1", "pj_visc"}

(* the interior left by the dissipation call and the sweep that follows it, *)
(* started with Vx, Vy and W in the never-assigned stores                   *)
FirstSweepFrom(Vx, Vy, W) ==
    IF pc = "gs_visc1"
    THEN Bind(Compute_Artificial_Viscosity(u, Vx, Vy), LAMBDA r :
              InteriorOf(SGS_forward_sweep(u, r[1], r[2], dt, src)))
    ELSE Bind(Compute_Artificial_Viscosity(uold, Vx, Vy), LAMBDA r :
              InteriorOf(point_Jacobi(W, uold, r[1], r[2], dt, src)))

(* C27: in a fresh run, under SGS and under point Jacobi, every array       *)
(* element an operation reads was assigned earlier in the run; so what the  *)
(* first dissipation call and the first sweep produce is the same whatever  *)
(* the never-assigned storage holds.                                        *)
C27_FirstSweepIgnoresRawStorage ==
    FirstDissipation =>
        \A g \in Garbage :
            FirstSweepFrom(Array2(g), Array2(g), Array3(g))
                = FirstSweepFrom(viscx, viscy, u)

(* ------ C29: the residuals of a node are evaluated on one state --------- *)
(* u and v of node nd after a visit in which both momentum residuals are    *)
(* evaluated on the node as the visit found it                              *)
FrozenVisit(U, nd) ==
    Bind(Mul(dt[nd[1]][nd[2]], rhoinv), LAMBDA f :
         << Sub(U[nd[1]][nd[2]][1],
                Mul(f, XMomentumResid(U, U, src, nd[1], nd[2]))),
            Sub(U[nd[1]][nd[2]][2],
                Mul(f, YMomentumResid(U, U, src, nd[1], nd[2]))) >>)

(* C29: a visit of an SGS sweep to node (i,j) evaluates the x-momentum and  *)
(* the y-momentum residual with the same u(i,j) and v(i,j), the values the  *)
(* node held before any of its three updates: the velocities the visit      *)
(* leaves are those obtained from residuals taken on the node as found.     *)
C29_ResidualsOnOneNodeState ==
    pc \in {"gs_forward", "gs_backward"} =>
        \A nd \in InteriorNodes :
            Bind(SGSNode(u, viscx, viscy, dt, src, nd[1], nd[2])[nd[1]][nd[2]],
                 LAMBDA w : <<w[1], w[2]>> = FrozenVisit(u, nd))

(* ---- C30: the terminal write records the last iteration executed ------- *)
(* the terminal write_output has been made, after at least one iteration *)
AfterTerminalWrite == pc \in {"close_files", "done"} /\ log # <<>>

(* C30: on the converged exit and on the exit at the iteration cap alike,   *)
(* the iteration number given to the terminal write_output, which heads the *)
(* restart record and the last zone of the field file, is the number of the *)
(* last iteration that was executed.                                        *)
C30_TerminalWriteNamesLastIteration ==
    AfterTerminalWrite =>
        /\ fp3[1] = log[Len(log)].n
        /\ fp2[Len(fp2)] = log[Len(log)].n

(* --------- C28: every index used lies inside the grid (imax, jmax) ------ *)
(* the nodes reached from the nodes of a loop by the offsets of its body *)
Stencil(nodes, offsets) ==
    {<<nd[1] + o[1], nd[2] + o[2]>> : nd \in nodes, o \in offsets}

FivePoint == {<<0, 0>>, <<1, 0>>, <<-1, 0>>, <<0, 1>>, <<0, -1>>}
FourthDifference ==
    FivePoint \cup {<<2, 0>>, <<-2, 0>>, <<0, 2>>, <<0, -2>>}

(* bndry, lines 501-520: the wall columns and the two columns each          *)
(* pressure extrapolation reads, for j = 0 .. jmax-1; then the rows         *)
bndryIndices(im, jm) ==
    ({0, 1, 2, im - 1, im - 2, im - 3} \X (0 .. jm - 1))
        \cup ((1 .. im - 2) \X {0, 1, 2, jm - 1, jm - 2, jm - 3})

(* bndrymms, lines 561-604 *)
bndrymmsIndices(im, jm) ==
    ({0, 1, 2, im - 1, im - 2, im - 3} \X (1 .. jm - 2))
        \cup ((0 .. im - 1) \X {0, 1, 2, jm - 1, jm - 2, jm - 3})

(* compute_time_step, lines 897-918 *)
timeStepIndices(im, jm) == (1 .. im - 2) \X (1 .. jm - 2)

(* fault injection: the fourth differences taken at every interior node *)
dampingIndicesAllInterior(im, jm) ==
    Stencil((1 .. im - 2) \X (1 .. jm - 2), FourthDifference)

(* Compute_Artificial_Viscosity, lines 948-975 *)
dampingIndices(im, jm) ==
    Stencil((2 .. im - 3) \X (2 .. jm - 3), FourthDifference)

(* Compute_Artificial_Viscosity, lines 982-1032: the edge passes with the   *)
(* branches their loops enter                                               *)
edgeIndices(im, jm) ==
    UNION ({ IF i = 1 THEN {<<i, j>>, <<i + 1, j>>, <<i + 2, j>>} ELSE {}
             : i \in {1, im - 2}, j \in 1 .. jm - 2 }
      \cup { IF i = im - 1 THEN {<<i, j>>, <<i - 1, j>>, <<i - 2, j>>} ELSE {}
             : i \in {1, im - 2}, j \in 1 .. jm - 2 }
      \cup { IF j = 1 THEN {<<i, j>>, <<i, j + 1>>, <<i, j + 2>>} ELSE {}
             : i \in 1 .. im - 2, j \in {1, jm - 2} }
      \cup { IF j = jm - 1
             THEN {<<i, j>>, <<i - 1, j>>, <<i, j - 1>>, <<i, j - 2>>} ELSE {}
             : i \in 1 .. im - 2, j \in {1, jm - 2} })

(* the sweeps, lines 1068-1101, 1143-1177 and 1222-1247 *)
sweepIndices(im, jm) == Stencil((1 .. im - 2) \X (1 .. jm - 2), FivePoint)

(* pressure_rescaling, lines 1277-1296 *)
anchorIndices(im, jm) ==
    {<<(im - 1) \div 2, (jm - 1) \div 2>>} \cup ((0 .. im - 1) \X (0 .. jm - 1))

(* check_iterative_convergence, lines 1332-1358 *)
monitorIndices(im, jm) == (1 .. im - 2) \X (1 .. jm - 2)

(* the indices the step about to be taken uses on a grid of im by jm nodes *)
IndicesUsedAt(site, im, jm) ==
    CASE site \in BCSites ->
             IF set_boundary_conditions = "bndry" THEN bndryIndices(im, jm)
             ELSE bndrymmsIndices(im, jm)
      [] site = "compute_time_step" -> timeStepIndices(im, jm)
      [] site \in ViscSites -> dampingIndices(im, jm) \cup edgeIndices(im, jm)
      [] site \in {"gs_forward", "gs_backward", "pj_jacobi"} ->
             sweepIndices(im, jm)
      [] site = "pressure_rescaling" -> anchorIndices(im, jm)
      [] site = "check_iterative_convergence" -> monitorIndices(im, jm)
      [] OTHER -> {}

MaxGrid == 8

(* C28: on every grid with imax >= 5 and jmax >= 5 (here up to MaxGrid, the *)
(* grid of the run included) every index pair a boundary applier, the       *)
(* time-step estimator, the dissipation stencil and its edge passes, a      *)
(* sweep, the pressure anchor or the convergence monitor uses lies in       *)
(* [0, imax-1] x [0, jmax-1].                                               *)
C28_IndicesInsideGrid ==
    /\ imax \in 5 .. MaxGrid /\ jmax \in 5 .. MaxGrid
    /\ \A im \in 5 .. MaxGrid : \A jm \in 5 .. MaxGrid :
          IndicesUsedAt(pc, im, jm) \subseteq (0 .. im - 1) \X (0 .. jm - 1)

(* a sweep of the second or a later iteration is about to run: every        *)
(* operation of the claim has been executed on the grid                     *)
C28_SweepAboutToRun ==
    /\ pc \in {"gs_backward", "pj_jacobi"} /\ log # <<>>
    /\ <<imax - 1, jmax - 2>> \in IndicesUsedAt(pc, imax, jmax)
==========================================================================
